---- MODULE Spec2Model ----
(***************************************************************************)
(* Model of choose_pokemon.py: the stat derivation calculate_pogo_stats    *)
(* and the type scoring calculate_pogo_typing.                             *)
(*                                                                         *)
(* Python floats are IEEE-754 binary64.  The derivation multiplies,        *)
(* divides and takes square roots of floats and then rounds them, so the   *)
(* model carries floats exactly: a float is a sign, an unbounded natural   *)
(* mantissa and a binary exponent, and every float operation computes the  *)
(* exact result and rounds it to 53 significant bits, ties to even, as the *)
(* hardware does.  Unbounded naturals are sequences of 15-bit limbs, least *)
(* significant first, because the checker's integers are 32 bits wide.     *)
(***************************************************************************)
EXTENDS Integers, Sequences, FiniteSets, TLC

(***************************************************************************)
(* Unbounded naturals                                                      *)
(***************************************************************************)
Base == 2^15
MantBits == 53

\* TLC evaluates an operator's argument where the body first uses it, which
\* can be deep inside nested applications.  Evaluated(v) is a first use: as a
\* CASE guard it is always true, and it keeps the evaluation stack shallow.
Evaluated(v) == v = v

Pow2(n) == 2^n

\* the number of bits of n, 0 <= n < 2^30
BitLenInt(n) == CHOOSE k \in 0..30 : n < 2^k /\ (k = 0 \/ 2^(k - 1) <= n)

RECURSIVE BigNorm(_)
BigNorm(a) ==
    IF a = << >> THEN a
    ELSE IF a[Len(a)] = 0 THEN BigNorm(SubSeq(a, 1, Len(a) - 1))
    ELSE a

RECURSIVE BigFromInt(_)
BigFromInt(n) ==
    IF n = 0 THEN << >> ELSE <<n % Base>> \o BigFromInt(n \div Base)

RECURSIVE BigToInt(_)
BigToInt(a) ==
    IF a = << >> THEN 0 ELSE a[1] + Base * BigToInt(Tail(a))

LimbBits == BitLenInt(Base) - 1

BigBitLen(a) ==
    IF a = << >> THEN 0 ELSE LimbBits * (Len(a) - 1) + BitLenInt(a[Len(a)])

BigIsOdd(a) == a # << >> /\ a[1] % 2 = 1

RECURSIVE BigCmpFrom(_, _, _)
BigCmpFrom(a, b, i) ==
    IF i = 0 THEN 0
    ELSE IF a[i] < b[i] THEN -1
    ELSE IF a[i] > b[i] THEN 1
    ELSE BigCmpFrom(a, b, i - 1)

BigCmp(a, b) ==
    IF Len(a) < Len(b) THEN -1
    ELSE IF Len(a) > Len(b) THEN 1
    ELSE BigCmpFrom(a, b, Len(a))

RECURSIVE BigAddFrom(_, _, _, _)
BigAddFrom(a, b, i, carry) ==
    IF i > Len(a) /\ i > Len(b)
    THEN IF carry = 0 THEN << >> ELSE <<carry>>
    ELSE LET s == (IF i <= Len(a) THEN a[i] ELSE 0)
                  + (IF i <= Len(b) THEN b[i] ELSE 0) + carry
         IN  <<s % Base>> \o BigAddFrom(a, b, i + 1, s \div Base)

BigAdd(a, b) == BigAddFrom(a, b, 1, 0)

RECURSIVE BigSubFrom(_, _, _, _)
BigSubFrom(a, b, i, borrow) ==
    IF i > Len(a) THEN << >>
    ELSE LET d == a[i] - (IF i <= Len(b) THEN b[i] ELSE 0) - borrow
         IN  IF d < 0
             THEN <<d + Base>> \o BigSubFrom(a, b, i + 1, 1)
             ELSE <<d>> \o BigSubFrom(a, b, i + 1, 0)

\* a - b for a >= b
BigSub(a, b) == BigNorm(BigSubFrom(a, b, 1, 0))

RECURSIVE BigMulSmallFrom(_, _, _, _)
BigMulSmallFrom(a, k, i, carry) ==
    IF i > Len(a) THEN BigFromInt(carry)
    ELSE LET p == a[i] * k + carry
         IN  <<p % Base>> \o BigMulSmallFrom(a, k, i + 1, p \div Base)

\* a * k for 0 <= k < 2^16
BigMulSmall(a, k) == IF k = 0 THEN << >> ELSE BigMulSmallFrom(a, k, 1, 0)

BigZeros(n) == [i \in 1..n |-> 0]

RECURSIVE BigMulFrom(_, _, _)
BigMulFrom(a, b, i) ==
    IF i > Len(b) THEN << >>
    ELSE BigAdd(BigMulSmall(a, b[i]),
                LET rest == BigMulFrom(a, b, i + 1)
                IN  IF rest = << >> THEN rest ELSE <<0>> \o rest)

BigMul(a, b) == BigMulFrom(a, b, 1)

RECURSIVE BigDivSmallFrom(_, _, _, _)
BigDivSmallFrom(a, d, i, rem) ==
    IF i = 0 THEN [q |-> << >>, r |-> rem]
    ELSE LET cur == rem * Base + a[i]
             lower == BigDivSmallFrom(a, d, i - 1, cur % d)
         IN  [q |-> Append(lower.q, cur \div d), r |-> lower.r]

\* quotient and remainder of a by d, for 0 < d < 2^16
BigDivSmall(a, d) ==
    LET res == BigDivSmallFrom(a, d, Len(a), 0)
    IN  CASE Evaluated(a) /\ Evaluated(res) -> [q |-> BigNorm(res.q), r |-> res.r]

\* a * 2^n
BigShl(a, n) ==
    IF a = << >> THEN a
    ELSE BigZeros(n \div LimbBits) \o BigMulSmall(a, Pow2(n % LimbBits))

\* floor(a / 2^n)
BigShr(a, n) ==
    IF n \div LimbBits >= Len(a) THEN << >>
    ELSE BigDivSmall(SubSeq(a, n \div LimbBits + 1, Len(a)),
                     Pow2(n % LimbBits)).q

\* whether a is a multiple of 2^n
BigLowZero(a, n) == BigShl(BigShr(a, n), n) = a

\* round-half-to-even of a / 2^n, n >= 0
BigRoundShr(a, n) ==
    IF n = 0 THEN a
    ELSE LET q == BigShr(a, n)
             half == BigIsOdd(BigShr(a, n - 1))
             rest == ~BigLowZero(a, n - 1)
         IN  IF half /\ (rest \/ BigIsOdd(q)) THEN BigAdd(q, <<1>>) ELSE q

(***************************************************************************)
(* binary64 floats: value = (-1)^neg * m * 2^e, m of at most 53 bits       *)
(***************************************************************************)
FlZero == [neg |-> FALSE, m |-> << >>, e |-> 0]

\* The float nearest to (m + d) * 2^e, where 0 < d < 1 when sticky and d = 0
\* otherwise; with sticky, m has at least 54 bits.
FlRound(neg, m, e, sticky) ==
    LET m2 == IF sticky THEN BigAdd(BigShl(m, 1), <<1>>) ELSE m
        e2 == IF sticky THEN e - 1 ELSE e
        n  == BigBitLen(m2) - MantBits
    IN  CASE Evaluated(m2) ->
            IF m2 = << >> THEN FlZero
            ELSE IF n <= 0 THEN [neg |-> neg, m |-> m2, e |-> e2]
            ELSE [neg |-> neg, m |-> BigRoundShr(m2, n), e |-> e2 + n]

\* float(n) for an int of magnitude below 2^31: exact
FlFromInt(n) ==
    IF n < 0 THEN [neg |-> TRUE, m |-> BigFromInt(-n), e |-> 0]
    ELSE [neg |-> FALSE, m |-> BigFromInt(n), e |-> 0]

FlMul(x, y) ==
    CASE Evaluated(x) /\ Evaluated(y) ->
        FlRound(x.neg # y.neg, BigMul(x.m, y.m), x.e + y.e, FALSE)

\* x / d for an int 0 < d < 2^16
FlDivInt(x, d) ==
    LET k   == MantBits + 2 + BitLenInt(d)
        res == BigDivSmall(BigShl(x.m, k), d)
    IN  CASE Evaluated(x) ->
            IF x.m = << >> THEN FlZero
            ELSE FlRound(x.neg, res.q, x.e - k, res.r # 0)

FlAdd(x, y) ==
    LET e  == IF x.e < y.e THEN x.e ELSE y.e
        mx == BigShl(x.m, x.e - e)
        my == BigShl(y.m, y.e - e)
    IN  CASE Evaluated(x) /\ Evaluated(y) /\ Evaluated(mx) /\ Evaluated(my) ->
            IF x.neg = y.neg THEN FlRound(x.neg, BigAdd(mx, my), e, FALSE)
            ELSE IF BigCmp(mx, my) >= 0
                 THEN FlRound(x.neg, BigSub(mx, my), e, FALSE)
                 ELSE FlRound(y.neg, BigSub(my, mx), e, FALSE)

RECURSIVE ISqrt(_, _)
ISqrt(n, r) == IF (r + 1) * (r + 1) > n THEN r ELSE ISqrt(n, r + 1)

\* Binary digit-by-digit square root: from root = floor(sqrt(N)) and
\* rem = N - root^2, k further steps give the same for N * 4^k.
RECURSIVE BigSqrtSteps(_, _, _)
BigSqrtSteps(root, rem, k) ==
    IF k = 0 THEN [root |-> root, rem |-> rem]
    ELSE LET rem4  == BigMulSmall(rem, 4)
             trial == BigAdd(BigMulSmall(root, 4), <<1>>)
         IN  CASE Evaluated(rem4) /\ Evaluated(trial) ->
                 IF BigCmp(rem4, trial) >= 0
                 THEN BigSqrtSteps(BigAdd(BigMulSmall(root, 2), <<1>>),
                                   BigSub(rem4, trial), k - 1)
                 ELSE BigSqrtSteps(BigMulSmall(root, 2), rem4, k - 1)

\* the same k steps, as two halves, to keep the evaluation shallow
RECURSIVE BigSqrtBlocks(_, _, _)
BigSqrtBlocks(root, rem, k) ==
    IF k <= 4 THEN BigSqrtSteps(root, rem, k)
    ELSE LET done == BigSqrtBlocks(root, rem, k \div 2)
         IN  CASE Evaluated(done) ->
                 BigSqrtBlocks(done.root, done.rem, k - k \div 2)

\* math.sqrt(n) for an int 0 <= n < 2^30: correctly rounded
FlSqrtInt(n) ==
    LET r0  == ISqrt(n, 0)
        k   == MantBits + 2
        res == BigSqrtBlocks(BigFromInt(r0), BigFromInt(n - r0 * r0), k)
    IN  IF n = 0 THEN FlZero
        ELSE CASE Evaluated(res) ->
                 FlRound(FALSE, res.root, -k, res.rem # << >>)

\* x < y for floats x, y >= 0
FlLess(x, y) ==
    LET e == IF x.e < y.e THEN x.e ELSE y.e
    IN  CASE Evaluated(x) /\ Evaluated(y) ->
            BigCmp(BigShl(x.m, x.e - e), BigShl(y.m, y.e - e)) < 0

\* math.floor(x) for a float x >= 0
FlFloor(x) ==
    CASE Evaluated(x) ->
    IF x.e >= 0 THEN BigToInt(BigShl(x.m, x.e))
    ELSE BigToInt(BigShr(x.m, -x.e))

\* round(x): the nearest int, ties to even
PyRound(x) ==
    LET mag == IF x.e >= 0 THEN BigToInt(BigShl(x.m, x.e))
               ELSE BigToInt(BigRoundShr(x.m, -x.e))
    IN  CASE Evaluated(x) -> IF x.neg THEN -mag ELSE mag

\* A decimal literal: (-1)^neg * num / 10^exp10, converted to the nearest float
\* floor(a / 10^n), and whether anything was cut off
RECURSIVE BigDivPow10(_, _, _)
BigDivPow10(a, n, sticky) ==
    IF n = 0 THEN [q |-> a, sticky |-> sticky]
    ELSE LET step == IF n < 4 THEN n ELSE 4
             res  == BigDivSmall(a, 10^step)
             cut  == sticky \/ res.r # 0
         IN  CASE Evaluated(res) /\ Evaluated(cut) ->
                 BigDivPow10(res.q, n - step, cut)

FlLiteral(lit) ==
    LET k   == MantBits + 2 + 4 * lit.exp10
        res == BigDivPow10(BigShl(BigFromInt(lit.num), k), lit.exp10, FALSE)
    IN  IF lit.num = 0 THEN FlZero
        ELSE CASE Evaluated(res) -> FlRound(lit.neg, res.q, -k, res.sticky)

(***************************************************************************)
(* calculate_pogo_stats                                                    *)
(***************************************************************************)
Max(a, b) == IF a >= b THEN a ELSE b
Min(a, b) == IF a <= b THEN a ELSE b

Fields == {"HP", "Attack", "Defense", "Sp. Attack", "Sp. Defense", "Speed"}

\* pogo_speed = 1 + ((pokemon_base["Speed"] - 75) / 500)
PogoSpeed(speed) == FlAdd(FlFromInt(1), FlDivInt(FlFromInt(speed - 75), 500))

\* WeightedPair rounding halves up, floor(x + 0.5), instead of to even
MutWeightedPairHalfUp(wmax, wmin, a, b) ==
    FlFloor(FlAdd(FlMul(FlFromInt(2),
                        FlAdd(FlDivInt(FlFromInt(wmax * Max(a, b)), 8),
                              FlDivInt(FlFromInt(wmin * Min(a, b)), 8))),
                  FlLiteral([neg |-> FALSE, num |-> 5, exp10 |-> 1])))

\* round(2 * (wmax * max(pair) / 8 + wmin * min(pair) / 8))
WeightedPair(wmax, wmin, a, b) ==
    PyRound(FlMul(FlFromInt(2),
                  FlAdd(FlDivInt(FlFromInt(wmax * Max(a, b)), 8),
                        FlDivInt(FlFromInt(wmin * Min(a, b)), 8))))

\* round(round(...) * pogo_speed), the value before max_iv is added
Scaled(unscaled, speed) ==
    CASE Evaluated(unscaled) ->
        PyRound(FlMul(FlFromInt(unscaled), PogoSpeed(speed)))

\* BaseAttack with the smaller value subtracted instead of added
MutBaseAttackMinus(base) ==
    Scaled(PyRound(FlMul(FlFromInt(2),
               FlAdd(FlDivInt(FlFromInt(7 * Max(base["Attack"], base["Sp. Attack"])), 8),
                     FlDivInt(FlFromInt(-Min(base["Attack"], base["Sp. Attack"])), 8)))),
           base["Speed"])

BaseAttack(base) ==
    Scaled(WeightedPair(7, 1, base["Attack"], base["Sp. Attack"]), base["Speed"])

\* BaseDefense with the weights of the attack, 7/8 and 1/8
MutBaseDefenseAttackWeights(base) ==
    Scaled(WeightedPair(7, 1, base["Defense"], base["Sp. Defense"]), base["Speed"])

BaseDefense(base) ==
    Scaled(WeightedPair(5, 3, base["Defense"], base["Sp. Defense"]), base["Speed"])

\* floor(pokemon_base["HP"] * 1.75 + 50)
BaseHP(base) ==
    FlFloor(FlAdd(FlMul(FlFromInt(base["HP"]),
                        FlLiteral([neg |-> FALSE, num |-> 175, exp10 |-> 2])),
                  FlFromInt(50)))

\* RawCP without the 10 in the max
MutRawCPNoFloor(pogo_attack, pogo_defense, pogo_hp, cp_modifier) ==
    LET m == FlLiteral(cp_modifier)
        x == FlDivInt(FlMul(FlMul(FlMul(FlFromInt(pogo_attack),
                                        FlSqrtInt(pogo_defense)),
                                  FlSqrtInt(pogo_hp)),
                            FlMul(m, m)),
                      10)
    IN  CASE Evaluated(m) /\ Evaluated(x) -> FlFloor(x)

\* floor(max([10, attack * sqrt(defense) * sqrt(hp) * cp_modifier ** 2 / 10]))
RawCP(pogo_attack, pogo_defense, pogo_hp, cp_modifier) ==
    LET m == FlLiteral(cp_modifier)
        x == FlDivInt(FlMul(FlMul(FlMul(FlFromInt(pogo_attack),
                                        FlSqrtInt(pogo_defense)),
                                  FlSqrtInt(pogo_hp)),
                            FlMul(m, m)),
                      10)
    IN  CASE Evaluated(m) /\ Evaluated(x) ->
            IF FlLess(FlFromInt(10), x) THEN FlFloor(x) ELSE 10

\* Nerfed with > for >=
MutNerfedStrict(pogo_cp, cp_ceiling, cp_nerf) ==
    IF pogo_cp > cp_ceiling
    THEN PyRound(FlMul(FlFromInt(pogo_cp), FlLiteral(cp_nerf)))
    ELSE pogo_cp

\* if pogo_cp >= cp_ceiling: pogo_cp = round(pogo_cp * cp_nerf)
Nerfed(pogo_cp, cp_ceiling, cp_nerf) ==
    IF pogo_cp >= cp_ceiling
    THEN PyRound(FlMul(FlFromInt(pogo_cp), FlLiteral(cp_nerf)))
    ELSE pogo_cp

\* the locals after the assignment to pogo_cp that ends at line 105
PogoLocals(base, max_iv, cp_modifier) ==
    LET pogo_attack  == BaseAttack(base) + max_iv
        pogo_defense == BaseDefense(base) + max_iv
        pogo_hp      == BaseHP(base) + max_iv
    IN  CASE Evaluated(pogo_attack) /\ Evaluated(pogo_defense)
             /\ Evaluated(pogo_hp) ->
        [pogo_attack  |-> pogo_attack,
         pogo_defense |-> pogo_defense,
         pogo_hp      |-> pogo_hp,
         pogo_cp      |-> RawCP(pogo_attack, pogo_defense, pogo_hp, cp_modifier)]

\* PogoReturn returning the stamina with max_iv still added
MutPogoReturnKeepsIv(locals, max_iv, cp_ceiling, cp_nerf) ==
    <<locals.pogo_attack - max_iv, locals.pogo_defense - max_iv,
      locals.pogo_hp, Nerfed(locals.pogo_cp, cp_ceiling, cp_nerf)>>

\* the ceiling test and the return statement
PogoReturn(locals, max_iv, cp_ceiling, cp_nerf) ==
    CASE Evaluated(locals) ->
    <<locals.pogo_attack - max_iv, locals.pogo_defense - max_iv,
      locals.pogo_hp - max_iv, Nerfed(locals.pogo_cp, cp_ceiling, cp_nerf)>>

\* a subscript pokemon_base[...] of a missing key raises KeyError
RaisesKeyError(base) == ~(Fields \subseteq DOMAIN base)

calculate_pogo_stats(base, max_iv, cp_modifier, cp_ceiling, cp_nerf) ==
    PogoReturn(PogoLocals(base, max_iv, cp_modifier), max_iv, cp_ceiling, cp_nerf)

(***************************************************************************)
(* calculate_pogo_typing                                                   *)
(*                                                                         *)
(* A dict is a sequence of <<key, value>> pairs in insertion order, which  *)
(* is the order .items() iterates in.                                      *)
(***************************************************************************)
Passes == <<"super effective", "not very effective", "no effect">>

InList(x, list) == \E i \in 1..Len(list) : list[i] = x

HasKey(dict, k) == \E i \in 1..Len(dict) : dict[i][1] = k

\* AddTo on a list of pairs: every match appends an entry
MutAddToAppends(dict, k, delta) == Append(dict, <<k, delta>>)

\* effective_dict[k] += delta on a defaultdict(int)
AddTo(dict, k, delta) ==
    IF HasKey(dict, k)
    THEN [i \in 1..Len(dict) |->
             IF dict[i][1] = k THEN <<k, dict[i][2] + delta>> ELSE dict[i]]
    ELSE Append(dict, <<k, delta>>)

\* for k, v in mapping.items(): if pogo_type in v: effective_dict[k] += delta
RECURSIVE ScanMapping(_, _, _, _, _)
ScanMapping(dict, pogo_type, mapping, delta, i) ==
    IF i > Len(mapping) THEN dict
    ELSE ScanMapping(IF InList(pogo_type, mapping[i][2])
                     THEN AddTo(dict, mapping[i][1], delta)
                     ELSE dict,
                     pogo_type, mapping, delta, i + 1)

\* ScanType with "no effect" weighted like "not very effective"
MutScanTypeWeights(dict, pogo_type, table) ==
    ScanMapping(
        ScanMapping(
            ScanMapping(dict, pogo_type, table["super effective"], 1, 1),
            pogo_type, table["not very effective"], -1, 1),
        pogo_type, table["no effect"], -1, 1)

\* the body of "for pogo_type in types"
ScanType(dict, pogo_type, table) ==
    ScanMapping(
        ScanMapping(
            ScanMapping(dict, pogo_type, table["super effective"], 1, 1),
            pogo_type, table["not very effective"], -1, 1),
        pogo_type, table["no effect"], -2, 1)

RECURSIVE ScanTypes(_, _, _, _)
ScanTypes(dict, tags, table, i) ==
    IF i > Len(tags) THEN dict
    ELSE ScanTypes(ScanType(dict, tags[i], table), tags, table, i + 1)

Reverse(seq) == [i \in 1..Len(seq) |-> seq[Len(seq) + 1 - i]]

\* insert item after every element whose value is <= its own
RECURSIVE InsertByValue(_, _)
InsertByValue(sorted, item) ==
    IF sorted = << >> THEN <<item>>
    ELSE IF sorted[Len(sorted)][2] <= item[2] THEN Append(sorted, item)
    ELSE Append(InsertByValue(SubSeq(sorted, 1, Len(sorted) - 1), item),
                sorted[Len(sorted)])

\* a stable ascending sort on item[1] of the <<key, value>> pairs
RECURSIVE StableSort(_, _, _)
StableSort(items, sorted, i) ==
    IF i > Len(items) THEN sorted
    ELSE StableSort(items, InsertByValue(sorted, items[i]), i + 1)

\* SortedReverse as an ascending sort whose result is reversed
MutSortedReverseUnstable(items) == Reverse(StableSort(items, << >>, 1))

\* sorted(items, key=lambda item: item[1], reverse=True): list.sort reverses
\* the list, sorts it stably in ascending order and reverses the result
SortedReverse(items) == Reverse(StableSort(Reverse(items), << >>, 1))

calculate_pogo_typing(tags, table) ==
    SortedReverse(ScanTypes(<< >>, tags, table, 1))

(***************************************************************************)
(* Inputs                                                                  *)
(***************************************************************************)
MaxGrid == 2
MaxTags == 2

DefaultMaxIv == 15
DefaultCeiling == 4000
DefaultModifier == [neg |-> FALSE, num |-> 7903001, exp10 |-> 7]
DefaultNerf == [neg |-> FALSE, num |-> 91, exp10 |-> 2]

MkBase(hp, attack, defense, sp_attack, sp_defense, speed) ==
    "HP" :> hp @@ "Attack" :> attack @@ "Defense" :> defense
    @@ "Sp. Attack" :> sp_attack @@ "Sp. Defense" :> sp_defense
    @@ "Speed" :> speed

\* shinx_base of the test
ShinxBase == MkBase(35, 55, 40, 50, 50, 90)

\* entries of the mapping load_pokemon_file returns
Pokedex ==
    25 :> [name |-> "Pikachu", type |-> <<"Electric">>, base |-> ShinxBase]
    @@ 130 :> [name |-> "Gyarados", type |-> <<"Water", "Flying">>,
               base |-> MkBase(95, 125, 79, 60, 100, 81)]
    @@ 150 :> [name |-> "Mewtwo", type |-> <<"Psychic">>,
               base |-> MkBase(106, 110, 90, 154, 90, 130)]
    @@ 195 :> [name |-> "Quagsire", type |-> <<"Water", "Ground">>,
               base |-> MkBase(95, 85, 85, 65, 65, 35)]
    @@ 289 :> [name |-> "Slaking", type |-> <<"Normal">>,
               base |-> MkBase(150, 160, 100, 95, 65, 100)]

GridVals == {25 * k : k \in 0..MaxGrid}

GridBases ==
    {MkBase(35, a, 40, sa, 50, sp) :
        a \in GridVals, sa \in GridVals, sp \in {90, 120, 150}}

\* records with a field missing
PartialBases ==
    {[f \in Fields \ {missing} |-> ShinxBase[f]] : missing \in {"Speed", "HP"}}

Bases == {Pokedex[i].base : i \in DOMAIN Pokedex} \cup GridBases

MkConfig(max_iv, cp_modifier, cp_ceiling, cp_nerf) ==
    [max_iv |-> max_iv, cp_modifier |-> cp_modifier,
     cp_ceiling |-> cp_ceiling, cp_nerf |-> cp_nerf]

DefaultConfig ==
    MkConfig(DefaultMaxIv, DefaultModifier, DefaultCeiling, DefaultNerf)

Configs ==
    { DefaultConfig,
      MkConfig(0, DefaultModifier, DefaultCeiling, DefaultNerf),
      MkConfig(DefaultMaxIv, [neg |-> FALSE, num |-> 0, exp10 |-> 0],
               DefaultCeiling, DefaultNerf),
      MkConfig(DefaultMaxIv, [neg |-> TRUE, num |-> 7903001, exp10 |-> 7],
               DefaultCeiling, DefaultNerf),
      MkConfig(DefaultMaxIv, DefaultModifier, 0, DefaultNerf),
      MkConfig(0, DefaultModifier, 10, DefaultNerf),
      MkConfig(DefaultMaxIv, DefaultModifier, 900, DefaultNerf),
      MkConfig(DefaultMaxIv, DefaultModifier, DefaultCeiling,
               [neg |-> FALSE, num |-> 5, exp10 |-> 1]),
      MkConfig(DefaultMaxIv, DefaultModifier, 900,
               [neg |-> FALSE, num |-> 1, exp10 |-> 0]),
      MkConfig(DefaultMaxIv, DefaultModifier, 900,
               [neg |-> FALSE, num |-> 9999, exp10 |-> 4]) }

TypeNames == {"Electric", "Ground", "Water", "Flying", "Psychic"}

MkTable(super, notvery, noeffect) ==
    "super effective" :> super @@ "not very effective" :> notvery
    @@ "no effect" :> noeffect

\* an excerpt of the type chart, keyed by attacking type
TypeChart ==
    MkTable(<< <<"Electric", <<"Water", "Flying">>>>,
               <<"Ground", <<"Electric">>>>,
               <<"Water", <<"Ground">>>> >>,
            << <<"Water", <<"Water">>>>,
               <<"Electric", <<"Electric">>>>,
               <<"Flying", <<"Electric">>>> >>,
            << <<"Electric", <<"Ground">>>>,
               <<"Ground", <<"Flying">>>> >>)

\* only Electric's rows: strong against Water and Flying, no effect on Ground
ElectricRows ==
    MkTable(<< <<"Electric", <<"Water", "Flying">>>> >>,
            << >>,
            << <<"Electric", <<"Ground">>>> >>)

\* the excerpt with the keys in another order
TypeChartReordered ==
    MkTable(<< <<"Water", <<"Ground">>>>,
               <<"Ground", <<"Electric">>>>,
               <<"Electric", <<"Water", "Flying">>>> >>,
            << <<"Flying", <<"Electric">>>>,
               <<"Electric", <<"Electric">>>>,
               <<"Water", <<"Water">>>> >>,
            << <<"Ground", <<"Flying">>>>,
               <<"Electric", <<"Ground">>>> >>)

Tables == {TypeChart, ElectricRows, TypeChartReordered}

RECURSIVE SeqsUpTo(_, _)
SeqsUpTo(S, n) ==
    IF n = 0 THEN {<< >>}
    ELSE LET shorter == SeqsUpTo(S, n - 1)
         IN  shorter \cup {Append(q, x) : q \in shorter, x \in S}

TypeLists == SeqsUpTo(TypeNames, MaxTags)

(***************************************************************************)
(* State: one call of one of the three functions, its arguments, the       *)
(* locals the claims speak of and what it returns.                          *)
(***************************************************************************)
VARIABLES
    pc,                     \* "called", "returned" or "raised"
    fn,                     \* the function called
    pokemon_base, max_iv, cp_modifier, cp_ceiling, cp_nerf,
    types, type_effectiveness,
    pokemon_idx,            \* choose_pokemon's random choice, 0 before it
    raw_cp,                 \* pogo_cp before the ceiling test, 0 before it
    pokemon_stats,          \* what calculate_pogo_stats returned
    effective_dict,         \* the accumulator before it is sorted
    pokemon_effectiveness   \* what calculate_pogo_typing returned

vars == <<pc, fn, pokemon_base, max_iv, cp_modifier, cp_ceiling, cp_nerf,
          types, type_effectiveness, pokemon_idx, raw_cp, pokemon_stats,
          effective_dict, pokemon_effectiveness>>

NoBase == [f \in {} |-> 0]

NoResults ==
    /\ pokemon_idx = 0
    /\ raw_cp = 0
    /\ pokemon_stats = << >>
    /\ effective_dict = << >>
    /\ pokemon_effectiveness = << >>

DefaultArgs ==
    /\ max_iv = DefaultMaxIv
    /\ cp_modifier = DefaultModifier
    /\ cp_ceiling = DefaultCeiling
    /\ cp_nerf = DefaultNerf

InitStats ==
    /\ fn = "calculate_pogo_stats"
    /\ pokemon_base \in Bases \cup PartialBases
    /\ \E c \in Configs :
          /\ max_iv = c.max_iv
          /\ cp_modifier = c.cp_modifier
          /\ cp_ceiling = c.cp_ceiling
          /\ cp_nerf = c.cp_nerf
    /\ types = << >>
    /\ type_effectiveness = MkTable(<< >>, << >>, << >>)

InitTyping ==
    /\ fn = "calculate_pogo_typing"
    /\ pokemon_base = NoBase
    /\ DefaultArgs
    /\ types \in TypeLists
    /\ type_effectiveness \in Tables

InitChoose ==
    /\ fn = "choose_pokemon"
    /\ pokemon_base = NoBase
    /\ DefaultArgs
    /\ types = << >>
    /\ type_effectiveness \in Tables

Init ==
    /\ pc = "called"
    /\ NoResults
    /\ (InitStats \/ InitTyping \/ InitChoose)

\* StatsCall rejecting a cp_modifier or a cp_ceiling that is not positive
MutStatsCallValidates(base, iv, modifier, ceiling, nerf) ==
    IF RaisesKeyError(base) \/ modifier.neg \/ modifier.num = 0 \/ ceiling <= 0
    THEN /\ pc' = "raised"
         /\ UNCHANGED <<raw_cp, pokemon_stats>>
    ELSE \E locals \in {PogoLocals(base, iv, modifier)} :
            /\ pc' = "returned"
            /\ raw_cp' = locals.pogo_cp
            /\ pokemon_stats' = PogoReturn(locals, iv, ceiling, nerf)

StatsCall(base, iv, modifier, ceiling, nerf) ==
    IF RaisesKeyError(base)
    THEN /\ pc' = "raised"
         /\ UNCHANGED <<raw_cp, pokemon_stats>>
    ELSE \E locals \in {PogoLocals(base, iv, modifier)} :
            /\ pc' = "returned"
            /\ raw_cp' = locals.pogo_cp
            /\ pokemon_stats' = PogoReturn(locals, iv, ceiling, nerf)

TypingCall(tags, table) ==
    \E dict \in {ScanTypes(<< >>, tags, table, 1)} :
        /\ effective_dict' = dict
        /\ pokemon_effectiveness' = SortedReverse(dict)

CalculatePogoStats ==
    /\ pc = "called"
    /\ fn = "calculate_pogo_stats"
    /\ StatsCall(pokemon_base, max_iv, cp_modifier, cp_ceiling, cp_nerf)
    /\ UNCHANGED <<fn, pokemon_base, max_iv, cp_modifier, cp_ceiling, cp_nerf,
                   types, type_effectiveness, pokemon_idx, effective_dict,
                   pokemon_effectiveness>>

CalculatePogoTyping ==
    /\ pc = "called"
    /\ fn = "calculate_pogo_typing"
    /\ TypingCall(types, type_effectiveness)
    /\ pc' = "returned"
    /\ UNCHANGED <<fn, pokemon_base, max_iv, cp_modifier, cp_ceiling, cp_nerf,
                   types, type_effectiveness, pokemon_idx, raw_cp,
                   pokemon_stats>>

\* random.choice over the keys, then both functions on the chosen entry,
\* calculate_pogo_stats with its default configuration
ChoosePokemon ==
    /\ pc = "called"
    /\ fn = "choose_pokemon"
    /\ \E idx \in DOMAIN Pokedex :
          /\ pokemon_idx' = idx
          /\ pokemon_base' = Pokedex[idx].base
          /\ types' = Pokedex[idx].type
          /\ StatsCall(Pokedex[idx].base, DefaultMaxIv, DefaultModifier,
                       DefaultCeiling, DefaultNerf)
          /\ TypingCall(Pokedex[idx].type, type_effectiveness)
    /\ UNCHANGED <<fn, max_iv, cp_modifier, cp_ceiling, cp_nerf,
                   type_effectiveness>>

Next == CalculatePogoStats \/ CalculatePogoTyping \/ ChoosePokemon

Spec == Init /\ [][Next]_vars

(***************************************************************************)
(* Properties                                                              *)
(***************************************************************************)
StatsReturned ==
    pc = "returned" /\ fn \in {"calculate_pogo_stats", "choose_pokemon"}

TypingReturned ==
    pc = "returned" /\ fn \in {"calculate_pogo_typing", "choose_pokemon"}

Abs(x) == IF x < 0 THEN -x ELSE x

\* r is the integer nearest to p / q, a tie k + 1/2 going to the even one
IsHalfEvenOf(r, p, q) ==
    /\ 2 * Abs(q * r - p) <= q
    /\ 2 * Abs(q * r - p) = q => r % 2 = 0

\* r is an integer nearest to p / q, a tie going either way
IsNearestOf(r, p, q) == 2 * Abs(q * r - p) <= q

\* r = floor(p / q)
IsFloorOf(r, p, q) == q * r <= p /\ p < q * (r + 1)

\* C1 as claimed: the returned combat power is at least 10 under every
\* configuration, also after the ceiling-triggered nerf.
C1_CpAtLeast10 == StatsReturned => pokemon_stats[4] >= 10

\* C1 as amended: the returned combat power is at least 10 whenever the nerf is
\* not triggered or cp_ceiling * cp_nerf >= 10, as with the defaults 4000 and
\* 0.91.
C1_CpAtLeast10UnlessLowCeiling ==
    StatsReturned
    /\ (raw_cp < cp_ceiling
        \/ (~cp_nerf.neg /\ cp_ceiling * cp_nerf.num >= 10 * 10^cp_nerf.exp10))
    => pokemon_stats[4] >= 10

C1_Witness ==
    /\ StatsReturned
    /\ cp_ceiling = DefaultCeiling /\ cp_nerf = DefaultNerf
    /\ raw_cp >= cp_ceiling
    /\ pokemon_stats[4] >= 10
    /\ pokemon_stats[4] < raw_cp

ScoreOf(result, k) ==
    IF HasKey(result, k)
    THEN result[CHOOSE i \in 1..Len(result) : result[i][1] = k][2]
    ELSE 0

ResultKeys(result) == {result[i][1] : i \in 1..Len(result)}

\* mapping[k], or the empty list for a key the mapping does not have
Lookup(mapping, k) ==
    IF HasKey(mapping, k)
    THEN mapping[CHOOSE i \in 1..Len(mapping) : mapping[i][1] = k][2]
    ELSE << >>

Weight(hit, w) == IF hit THEN w ELSE 0

\* the score C3 claims for d: the tags' rows list d
RECURSIVE ClaimedScore(_, _, _, _)
ClaimedScore(d, tags, table, i) ==
    IF i > Len(tags) THEN 0
    ELSE Weight(InList(d, Lookup(table["super effective"], tags[i])), 1)
         + Weight(InList(d, Lookup(table["not very effective"], tags[i])), -1)
         + Weight(InList(d, Lookup(table["no effect"], tags[i])), -2)
         + ClaimedScore(d, tags, table, i + 1)

\* the score of a key k: k's rows list the tags
RECURSIVE KeyScore(_, _, _, _)
KeyScore(k, tags, table, i) ==
    IF i > Len(tags) THEN 0
    ELSE Weight(InList(tags[i], Lookup(table["super effective"], k)), 1)
         + Weight(InList(tags[i], Lookup(table["not very effective"], k)), -1)
         + Weight(InList(tags[i], Lookup(table["no effect"], k)), -2)
         + KeyScore(k, tags, table, i + 1)

\* C3 as claimed: the score of a type d is the sum over the tags t of +1, -1
\* and -2 for d being in the "super effective", "not very effective" and "no
\* effect" row of t.
C3_ScoresTypesListedUnderTag ==
    TypingReturned =>
        \A d \in TypeNames \cup ResultKeys(pokemon_effectiveness) :
            ScoreOf(pokemon_effectiveness, d)
                = ClaimedScore(d, types, type_effectiveness, 1)

\* C3 as amended: the score of a table key k is the sum over the tags t of +1,
\* -1 and -2 for t being in the "super effective", "not very effective" and
\* "no effect" row of k: the keys that list the tag are scored, not the types
\* listed under the tag.
C3_ScoresKeysListingTag ==
    TypingReturned =>
        \A k \in TypeNames \cup ResultKeys(pokemon_effectiveness) :
            ScoreOf(pokemon_effectiveness, k)
                = KeyScore(k, types, type_effectiveness, 1)

C3_Witness ==
    /\ TypingReturned
    /\ types = <<"Electric">>
    /\ type_effectiveness = TypeChart
    /\ pokemon_effectiveness
           = << <<"Ground", 1>>, <<"Electric", -1>>, <<"Flying", -1>> >>
    /\ ClaimedScore("Ground", types, type_effectiveness, 1) = -2

\* where a (tag, pass, row) triple matches key k: the row is k's and lists the tag
Touches(k) ==
    {t \in (1..Len(types)) \X (1..Len(Passes)) \X (1..Cardinality(TypeNames)) :
        /\ t[3] <= Len(type_effectiveness[Passes[t[2]]])
        /\ type_effectiveness[Passes[t[2]]][t[3]][1] = k
        /\ InList(types[t[1]], type_effectiveness[Passes[t[2]]][t[3]][2])}

\* tag order, then pass order, then the order of the mapping's keys
Before(t, u) ==
    \/ t[1] < u[1]
    \/ t[1] = u[1] /\ t[2] < u[2]
    \/ t[1] = u[1] /\ t[2] = u[2] /\ t[3] < u[3]

FirstTouch(k) ==
    CHOOSE t \in Touches(k) : \A u \in Touches(k) : t = u \/ Before(t, u)

\* C4: the result is ordered by score, non-increasing, and entries of equal
\* score are in the order in which their keys were first inserted.
C4_SortedDescendingStable ==
    TypingReturned =>
        \A i, j \in 1..Len(pokemon_effectiveness) :
            i < j =>
                /\ pokemon_effectiveness[i][2] >= pokemon_effectiveness[j][2]
                /\ pokemon_effectiveness[i][2] = pokemon_effectiveness[j][2] =>
                      Before(FirstTouch(pokemon_effectiveness[i][1]),
                             FirstTouch(pokemon_effectiveness[j][1]))

C4_Witness ==
    /\ TypingReturned
    /\ pokemon_effectiveness # effective_dict
    /\ \E i, j \in 1..Len(pokemon_effectiveness) :
          /\ i < j
          /\ pokemon_effectiveness[i][2] = pokemon_effectiveness[j][2]

\* C5: for the base stats of the test and the default configuration the result
\* is a 4-tuple within 1 of attack 112, defense 96 and stamina 111 and within
\* 10 of CP 938, and the ceiling is not reached.
C5_TestCase ==
    StatsReturned /\ pokemon_base = ShinxBase /\ DefaultArgs =>
        /\ Len(pokemon_stats) = 4
        /\ Abs(pokemon_stats[1] - 112) <= 1
        /\ Abs(pokemon_stats[2] - 96) <= 1
        /\ Abs(pokemon_stats[3] - 111) <= 1
        /\ Abs(pokemon_stats[4] - 938) <= 10
        /\ raw_cp < cp_ceiling

C5_Witness ==
    /\ StatsReturned /\ pokemon_base = ShinxBase /\ DefaultArgs
    /\ fn = "calculate_pogo_stats"
    /\ pokemon_stats = <<112, 95, 111, 933>>

InvalidConfig == cp_modifier.neg \/ cp_modifier.num = 0 \/ cp_ceiling <= 0

\* C6 as claimed: a call with a cp_modifier or a cp_ceiling that is not
\* positive is rejected with an error and returns no stats.
C6_InvalidConfigRejected ==
    fn = "calculate_pogo_stats" /\ pc # "called" /\ InvalidConfig
    => pc = "raised"

\* C6 as amended: the configuration is not validated.  A call with a
\* cp_modifier or a cp_ceiling that is not positive and a complete record
\* returns a 4-tuple: a zero modifier gives the raw CP 10, and a ceiling that
\* is not positive applies the nerf to every raw CP.
C6_InvalidConfigReturnsStats ==
    /\ fn = "calculate_pogo_stats" /\ pc # "called" /\ InvalidConfig
    /\ Fields \subseteq DOMAIN pokemon_base
    => /\ pc = "returned"
       /\ Len(pokemon_stats) = 4
       /\ cp_modifier.num = 0 => raw_cp = 10
       /\ cp_ceiling <= 0 =>
             IsHalfEvenOf(pokemon_stats[4], raw_cp * cp_nerf.num,
                          10^cp_nerf.exp10)

C6_Witness ==
    /\ fn = "calculate_pogo_stats" /\ pc = "returned"
    /\ cp_ceiling <= 0
    /\ pokemon_base = ShinxBase
    /\ pokemon_stats = <<112, 95, 111, 849>>

\* b2 has the HP, defenses and speed of b and attacks at least as large
AttackAtLeast(b, b2) ==
    /\ \A f \in {"HP", "Defense", "Sp. Defense", "Speed"} : b2[f] = b[f]
    /\ b2["Attack"] >= b["Attack"]
    /\ b2["Sp. Attack"] >= b["Sp. Attack"]

\* C7: a record with the same HP, defenses and speed and with Attack and
\* Sp. Attack at least as large has a derived attack at least as large.
C7_AttackMonotone ==
    StatsReturned =>
        \A b2 \in Bases :
            AttackAtLeast(pokemon_base, b2) => BaseAttack(b2) >= pokemon_stats[1]

C7_Witness ==
    /\ StatsReturned
    /\ \E b2 \in Bases :
          /\ AttackAtLeast(pokemon_base, b2)
          /\ b2["Attack"] > pokemon_base["Attack"]
          /\ BaseAttack(b2) > pokemon_stats[1]

\* C8: the returned attack, defense and stamina are functions of the record
\* alone, the same under every configuration, the stamina being
\* floor(HP * 1.75 + 50); the CP is computed from the three with max_iv added.
C8_BaseValuesWithoutIv ==
    StatsReturned =>
        /\ pokemon_stats[1] = BaseAttack(pokemon_base)
        /\ pokemon_stats[2] = BaseDefense(pokemon_base)
        /\ IsFloorOf(pokemon_stats[3], 7 * pokemon_base["HP"] + 200, 4)
        /\ raw_cp = RawCP(pokemon_stats[1] + max_iv, pokemon_stats[2] + max_iv,
                          pokemon_stats[3] + max_iv, cp_modifier)

C8_Witness ==
    /\ StatsReturned
    /\ max_iv # DefaultMaxIv
    /\ pokemon_base = ShinxBase
    /\ pokemon_stats[1] = 112 /\ pokemon_stats[2] = 95 /\ pokemon_stats[3] = 111
    /\ pokemon_stats[4] # 933

\* the value of round(wmax * max / 8 + wmin * min / 8, doubled), exactly
Unscaled(wmax, wmin, a, b) ==
    CHOOSE r \in 0..(2 * Max(a, b)) :
        IsHalfEvenOf(r, wmax * Max(a, b) + wmin * Min(a, b), 4)

\* C9 as claimed: attack and defense are round-half-to-even of the unscaled
\* value, itself rounded half to even, times 1 + (Speed - 75) / 500.
C9_TwoStageHalfEven ==
    StatsReturned =>
        LET b == pokemon_base
        IN  /\ IsHalfEvenOf(pokemon_stats[1],
                  Unscaled(7, 1, b["Attack"], b["Sp. Attack"]) * (425 + b["Speed"]),
                  500)
            /\ IsHalfEvenOf(pokemon_stats[2],
                  Unscaled(5, 3, b["Defense"], b["Sp. Defense"]) * (425 + b["Speed"]),
                  500)

\* C9 as amended: the second rounding is of the binary64 product of the
\* unscaled value and the binary64 value of 1 + (Speed - 75) / 500.  The result
\* is always an integer nearest to the exact product, hence its
\* round-half-to-even unless the exact product is a tie k + 1/2; on a tie the
\* float product can be off the tie and the result the odd neighbour.
C9_TwoStageOfFloatProduct ==
    StatsReturned =>
        LET b  == pokemon_base
            ua == Unscaled(7, 1, b["Attack"], b["Sp. Attack"])
            ud == Unscaled(5, 3, b["Defense"], b["Sp. Defense"])
        IN  /\ IsNearestOf(pokemon_stats[1], ua * (425 + b["Speed"]), 500)
            /\ IsNearestOf(pokemon_stats[2], ud * (425 + b["Speed"]), 500)
            /\ pokemon_stats[1]
                   = PyRound(FlMul(FlFromInt(ua), PogoSpeed(b["Speed"])))
            /\ pokemon_stats[2]
                   = PyRound(FlMul(FlFromInt(ud), PogoSpeed(b["Speed"])))

\* a state where the two roundings differ from one rounding of the product
C9_Witness ==
    /\ StatsReturned
    /\ LET b == pokemon_base
       IN  /\ ~IsHalfEvenOf(pokemon_stats[2],
                  (5 * Max(b["Defense"], b["Sp. Defense"])
                   + 3 * Min(b["Defense"], b["Sp. Defense"])) * (425 + b["Speed"]),
                  2000)
           /\ IsHalfEvenOf(pokemon_stats[2],
                  Unscaled(5, 3, b["Defense"], b["Sp. Defense"]) * (425 + b["Speed"]),
                  500)

\* C10: the result has exactly one entry for every key that some tag matched
\* in some mapping, also when its score is 0, and none for any other key; no
\* tags, or tags that match nothing, give no entries.
C10_OneEntryPerTouchedKey ==
    TypingReturned =>
        /\ \A i, j \in 1..Len(pokemon_effectiveness) :
              pokemon_effectiveness[i][1] = pokemon_effectiveness[j][1] => i = j
        /\ \A k \in TypeNames \cup ResultKeys(pokemon_effectiveness) :
              HasKey(pokemon_effectiveness, k) <=> Touches(k) # {}
        /\ types = << >> => pokemon_effectiveness = << >>

C10_Witness ==
    /\ TypingReturned
    /\ \E i \in 1..Len(pokemon_effectiveness) :
          /\ pokemon_effectiveness[i][2] = 0
          /\ Cardinality(Touches(pokemon_effectiveness[i][1])) = 2

====
